---- MODULE Spec2Model ----
(***************************************************************************)
(* Model of json-pretty-printer.go: main runs getTokens over the bytes of  *)
(* the input file, then printHeader, printTokens and printFooter.  One     *)
(* iteration of getTokens' loop and one iteration of printTokens' loop are *)
(* one step each.  A read of jsonFile at an index >= len(jsonFile) is a Go *)
(* run-time panic ("index out of range"), which ends the program.          *)
(*                                                                         *)
(* A byte is a one-character string; a Go string or []byte is a sequence   *)
(* of them.  Go indices are 0-based: At(s, j) is s[j].                     *)
(***************************************************************************)
EXTENDS Integers, Sequences, FiniteSets, TLC

VARIABLES
    jsonFile,          \* main: the bytes read from the input file
    pc,                \* main's position: "getTokens", "printTokens", "done", "panic"
    i,                 \* getTokens: the cursor
    tokenArray,        \* getTokens: the tokens appended so far
    panicIndex,        \* the index of the out-of-range read, -1 while none happened
    k,                 \* printTokens: number of tokens already printed
    indentationLevel,  \* printTokens: how many tabs to prepend
    isToIndent,        \* printTokens: is the next token to be indented
    stdout             \* everything printed so far, in order

vars == <<jsonFile, pc, i, tokenArray, panicIndex, k, indentationLevel, isToIndent, stdout>>

----------------------------------------------------------------------------
(* Token kinds *)
ObjectOpen == 11
ObjectClose == 12
ArrayOpen == 13
ArrayClose == 14
DelimiterPair == 21
DelimiterMember == 22
StringRegular == 31
StringEscaped == 32
StringClose == 33
Number == 41
LiteralBoolTrue == 51
LiteralBoolFalse == 52
LiteralNull == 53

Quote == "\""
Backslash == "\\"

Token(content, kind) == [content |-> content, kind |-> kind]

At(s, j) == s[j + 1]

Last(s) == s[Len(s)]

Digits == {"0", "1", "2", "3", "4", "5", "6", "7", "8", "9"}

----------------------------------------------------------------------------
(* getTokens, one iteration of the loop at cursor i *)

\* lines 84-112: is the current character part of the string the previous
\* token belongs to
isStringAfter(tokens) ==
    IF Len(tokens) = 0 THEN FALSE
    ELSE LET previousToken == Last(tokens)
             previousContent == previousToken.content
             previousCharacter == Last(previousContent)
         IN  CASE previousToken.kind = StringRegular ->
                     \/ previousCharacter # Quote
                     \/ (previousCharacter = Quote /\ Len(previousContent) = 1)
               [] previousToken.kind = StringEscaped -> TRUE
               [] OTHER -> FALSE

\* lines 103-110: the kind preset before the classification
presetKind(tokens, currentCharacter) ==
    IF /\ Len(tokens) > 0
       /\ Last(tokens).kind = StringEscaped
       /\ currentCharacter = Quote
    THEN StringClose
    ELSE 0

\* lines 138-152: the fixed text of the literal a character starts
literalContent(c) ==
    CASE c = "t" -> <<"t", "r", "u", "e">>
      [] c = "f" -> <<"f", "a", "l", "s", "e">>
      [] c = "n" -> <<"n", "u", "l", "l">>

\* literalLength with the length of "false" one short
literalLengthShort(c) ==
    CASE c = "t" -> 4
      [] c = "f" -> 4
      [] c = "n" -> 4

\* literalLength with the length of "true" one long
literalLengthLong(c) ==
    CASE c = "t" -> 5
      [] c = "f" -> 5
      [] c = "n" -> 4

literalLength(c) ==
    CASE c = "t" -> 4
      [] c = "f" -> 5
      [] c = "n" -> 4

\* lines 116-157: classification by one character outside a string
classifyPlain(c) ==
    LET one == <<c>>
        T(kind, content, length, isStringRegular, isNumber) ==
            [isToken |-> TRUE, kind |-> kind, content |-> content, length |-> length,
             isStringRegular |-> isStringRegular, isNumber |-> isNumber,
             isEscape |-> FALSE]
    IN  CASE c = "{" -> T(ObjectOpen, one, 1, FALSE, FALSE)
          [] c = "}" -> T(ObjectClose, one, 1, FALSE, FALSE)
          [] c = "[" -> T(ArrayOpen, one, 1, FALSE, FALSE)
          [] c = "]" -> T(ArrayClose, one, 1, FALSE, FALSE)
          [] c = ":" -> T(DelimiterPair, one, 1, FALSE, FALSE)
          [] c = "," -> T(DelimiterMember, one, 1, FALSE, FALSE)
          [] c = Quote -> T(StringRegular, one, 1, TRUE, FALSE)
          [] c \in Digits \cup {"-"} -> T(Number, one, 1, FALSE, TRUE)
          [] c \in {"t", "f", "n"} ->
                T(IF c = "t" THEN LiteralBoolTrue
                  ELSE IF c = "f" THEN LiteralBoolFalse ELSE LiteralNull,
                  literalContent(c), literalLength(c), FALSE, FALSE)
          [] OTHER ->
                [isToken |-> FALSE, kind |-> 0, content |-> one, length |-> 1,
                 isStringRegular |-> FALSE, isNumber |-> FALSE, isEscape |-> FALSE]

\* lines 161-191: classification inside a string, before the lookahead
classifyInString(c, preset) ==
    LET one == <<c>>
        base == [isToken |-> TRUE, kind |-> preset, content |-> one, length |-> 1,
                 isStringRegular |-> FALSE, isNumber |-> FALSE, isEscape |-> FALSE]
    IN  CASE c = Quote ->
                IF preset # StringClose
                THEN [base EXCEPT !.kind = StringRegular, !.isStringRegular = TRUE]
                ELSE base
          [] c = Backslash ->
                [base EXCEPT !.kind = StringEscaped, !.isEscape = TRUE]
          [] OTHER ->
                [base EXCEPT !.kind = StringRegular, !.isStringRegular = TRUE]

\* lines 170-186: the reads after the backslash at cur.  Result: the index of
\* the last character taken, or the index of the out-of-range read.
RECURSIVE escapeLoop(_, _, _)
escapeLoop(s, j, stop) ==
    IF j >= stop THEN [panic |-> FALSE, end |-> stop]
    ELSE IF j >= Len(s) THEN [panic |-> TRUE, end |-> j]
         ELSE escapeLoop(s, j + 1, stop)

\* escapeRun with the \u loop one iteration short
escapeRunShort(s, cur) ==
    IF cur + 1 >= Len(s) THEN [panic |-> TRUE, end |-> cur + 1]
    ELSE IF At(s, cur + 1) = "u" THEN escapeLoop(s, cur + 1, cur + 5)
         ELSE [panic |-> FALSE, end |-> cur + 2]

escapeRun(s, cur) ==
    IF cur + 1 >= Len(s) THEN [panic |-> TRUE, end |-> cur + 1]
    ELSE IF At(s, cur + 1) = "u" THEN escapeLoop(s, cur + 1, cur + 6)
         ELSE [panic |-> FALSE, end |-> cur + 2]

\* stringRun without the loop: the token is the current character alone
stringRunNone(s, j) == [panic |-> FALSE, end |-> j]

\* lines 197-210: the greedy loop of a StringRegular token, from index j.
\* Result: the index after the last character taken, or the index of the
\* out-of-range read.
RECURSIVE stringRun(_, _)
stringRun(s, j) ==
    IF j >= Len(s) THEN [panic |-> TRUE, end |-> j]
    ELSE CASE At(s, j) = Quote -> [panic |-> FALSE, end |-> j + 1]
           [] At(s, j) = Backslash -> [panic |-> FALSE, end |-> j]
           [] OTHER -> stringRun(s, j + 1)

\* lines 225-231
validNextNumCharacter(c) ==
    c \in {"-", "+", "e", "E", "."} \cup Digits

\* numberRun that stops at the end of the input instead of reading past it
RECURSIVE numberRunChecked(_, _)
numberRunChecked(s, j) ==
    IF j >= Len(s) THEN [panic |-> FALSE, end |-> j]
    ELSE IF validNextNumCharacter(At(s, j)) THEN numberRunChecked(s, j + 1)
         ELSE [panic |-> FALSE, end |-> j]

\* lines 233-242: the greedy loop of a Number token, from index j
RECURSIVE numberRun(_, _)
numberRun(s, j) ==
    IF j >= Len(s) THEN [panic |-> TRUE, end |-> j]
    ELSE IF validNextNumCharacter(At(s, j)) THEN numberRun(s, j + 1)
         ELSE [panic |-> FALSE, end |-> j]

\* lines 67-253: one iteration at cursor cur.  Result: panic with the index
\* read, or the token characteristics at line 245; the characters taken by a
\* lookahead are s[cur] .. s[end-1].
iteration(s, cur, tokens) ==
    LET c == At(s, cur)
        isString == isStringAfter(tokens)
        cls == IF isString THEN classifyInString(c, presetKind(tokens, c))
               ELSE classifyPlain(c)
        run == IF cls.isEscape THEN escapeRun(s, cur)
               ELSE IF cls.isStringRegular THEN stringRun(s, cur + 1)
               ELSE IF cls.isNumber THEN numberRun(s, cur + 1)
               ELSE [panic |-> FALSE, end |-> -1]
    IN  IF run.panic
        THEN [panic |-> TRUE, index |-> run.end, isToken |-> FALSE,
              kind |-> 0, content |-> <<>>, length |-> 0]
        ELSE IF run.end = -1
        THEN [panic |-> FALSE, index |-> -1, isToken |-> cls.isToken,
              kind |-> cls.kind, content |-> cls.content, length |-> cls.length]
        ELSE [panic |-> FALSE, index |-> -1, isToken |-> cls.isToken,
              kind |-> cls.kind, content |-> SubSeq(s, cur + 1, run.end),
              length |-> run.end - cur]

----------------------------------------------------------------------------
(* printTokens *)

Tabs(n) == [x \in 1..n |-> "\t"]

\* lines 281-312
addColor(token) ==
    LET span(color) ==
            [pre |-> <<"<span style=\"color:" \o color \o "\">">>, post |-> <<"</span>">>]
    IN  CASE token.kind \in {ObjectOpen, ObjectClose} -> span("#D75F5F")
          [] token.kind \in {ArrayOpen, ArrayClose} -> span("#10A778")
          [] token.kind = DelimiterPair -> span("#005F87")
          [] token.kind = DelimiterMember -> span("#CCCCCC")
          [] token.kind \in {StringRegular, StringClose} -> span("#424242")
          [] token.kind = StringEscaped -> span("#C30771")
          [] token.kind = Number -> span("#6855DE")
          [] token.kind \in {LiteralBoolTrue, LiteralBoolFalse, LiteralNull} -> span("#20A5BA")
          [] OTHER -> [pre |-> <<>>, post |-> <<>>]

\* indentString with the loop started at 0
indentStringFull(level) == Tabs(level)

\* lines 320-322
indentString(level) == Tabs(level - 1)

\* whiteSpacePre with the kind's white space appended to the pending indent
whiteSpacePreAdded(kind, level, toIndent) ==
    (IF toIndent THEN indentString(level) \o <<"\t">> ELSE <<>>)
    \o (CASE kind \in {ObjectClose, ArrayClose} -> <<"\n">> \o indentString(level)
          [] kind = DelimiterPair -> <<" ">>
          [] OTHER -> <<>>)

\* lines 324-346: the white space before the token
whiteSpacePre(kind, level, toIndent) ==
    CASE kind \in {ObjectClose, ArrayClose} -> <<"\n">> \o indentString(level)
      [] kind = DelimiterPair -> <<" ">>
      [] OTHER -> IF toIndent THEN indentString(level) \o <<"\t">> ELSE <<>>

\* lines 330-344: the white space after the token
whiteSpacePost(kind) ==
    CASE kind \in {ObjectOpen, ArrayOpen} -> <<"\n">>
      [] kind = DelimiterPair -> <<" ">>
      [] kind = DelimiterMember -> <<"\n">>
      [] OTHER -> <<>>

\* nextIndentationLevel without the decrement at a closing bracket of an array
nextIndentationLevelNoArrayClose(kind, level) ==
    CASE kind \in {ObjectOpen, ArrayOpen} -> level + 1
      [] kind = ObjectClose -> level - 1
      [] OTHER -> level

\* lines 333, 337: the indentation level after the token
nextIndentationLevel(kind, level) ==
    CASE kind \in {ObjectOpen, ArrayOpen} -> level + 1
      [] kind \in {ObjectClose, ArrayClose} -> level - 1
      [] OTHER -> level

\* lines 328, 334, 343
nextIsToIndent(kind) == kind \in {ObjectOpen, ArrayOpen, DelimiterMember}

\* lines 317-347
addWhiteSpace(token, level, toIndent) ==
    [pre |-> whiteSpacePre(token.kind, level, toIndent),
     post |-> whiteSpacePost(token.kind),
     level |-> nextIndentationLevel(token.kind, level),
     toIndent |-> nextIsToIndent(token.kind)]

\* lines 356-369
escapeCharacter(c) ==
    CASE c = "<" -> "&lt;"
      [] c = ">" -> "&gt;"
      [] c = "&" -> "&amp;"
      [] c = Quote -> "&quot;"
      [] c = "'" -> "&apos;"
      [] OTHER -> c

\* lines 351-373
escapeString(token) ==
    [x \in 1..Len(token.content) |-> escapeCharacter(token.content[x])]

\* lines 271-276
styleHTML(token, level, toIndent) ==
    LET color == addColor(token)
        ws == addWhiteSpace(token, level, toIndent)
    IN  ws.pre \o color.pre \o escapeString(token) \o color.post \o ws.post

\* lines 377-385
Header ==
    << "<!doctype html>", "\n",
       "<html>", "\n",
       "\t<head>", "\n",
       "\t\t<title>Assignment 2 - Colorized JSON</title>", "\n",
       "\t</head>", "\n",
       "\t<body style=\"background-color:#F1F1F1\">", "\n",
       "\t\t<span style=\"font-family:monospace; tab-size:4; white-space:pre\">", "\n" >>

\* lines 388-393
Footer ==
    << "\n", "\t\t</span>", "\n", "\t</body>", "\n", "</html>", "\n" >>

----------------------------------------------------------------------------
(* The input files *)

MaxChunks == 3
MaxDepth == 1

\* Pieces the arbitrary inputs are made of: single bytes, and the tails of
\* the literals and of a \u escape
Chunks ==
    { <<"{">>, <<"}">>, <<"[">>, <<"]">>, <<":">>, <<",">>, <<Quote>>, <<Backslash>>,
      <<"u">>, <<"a">>, <<"1">>, <<"-">>, <<"e">>, <<" ">>, <<"t">>, <<"n">>, <<"<">>,
      <<"r", "u", "e">>, <<"u", "0", "0", "4", "1">> }

RECURSIVE ChunkSeqs(_)
ChunkSeqs(n) ==
    IF n = 0 THEN { <<>> }
    ELSE LET shorter == ChunkSeqs(n - 1)
         IN  shorter \cup { s \o c : s \in shorter, c \in Chunks }

\* Well-formed JSON documents
NumberTexts ==
    { <<"0">>, <<"-", "1">>, <<"1", "e", "1">>,
      <<"-", "1", "2", ".", "5", "e", "+", "3">> }

StringTexts ==
    { <<Quote, Quote>>,
      <<Quote, "a", "b", Quote>>,
      <<Quote, "a", " ", "{", Quote>>,
      <<Quote, Backslash, "n", Quote>>,
      <<Quote, "a", Backslash, Quote, "b", Quote>>,
      <<Quote, Backslash, Backslash, Quote>>,
      <<Quote, Backslash, "u", "0", "0", "4", "1", Quote>>,
      <<Quote, "1", Backslash, "u", "0", "0", "4", "1", "t", Quote>> }

LiteralTexts ==
    { <<"t", "r", "u", "e">>, <<"f", "a", "l", "s", "e">>, <<"n", "u", "l", "l">> }

Scalars == NumberTexts \cup StringTexts \cup LiteralTexts

Keys == { <<Quote, "a", Quote>>, <<Quote, Backslash, "t", Quote>> }

FirstMembers == { <<"1">>, <<Quote, "b", Quote>> }

RECURSIVE Values(_)
Values(d) ==
    IF d = 0 THEN Scalars
    ELSE LET inner == Values(d - 1)
         IN  inner
             \cup { <<"[", "]">>, <<"{", "}">>, <<"{", " ", "}">> }
             \cup { <<"[">> \o v \o <<"]">> : v \in inner }
             \cup { <<"[">> \o m \o <<",">> \o v \o <<"]">> : m \in FirstMembers, v \in inner }
             \cup { <<"{">> \o key \o <<":">> \o v \o <<"}">> : key \in Keys, v \in inner }
             \cup { <<"{", "\n", "\t">> \o key \o <<" ", ":", " ">> \o v
                        \o <<",", "\n", "\t">> \o key \o <<":">> \o m \o <<"\n", "}">> :
                    key \in Keys, v \in inner, m \in FirstMembers }

WellFormedDocuments ==
    LET values == Values(MaxDepth)
    IN  values \cup { <<" ">> \o v \o <<"\n">> : v \in values }

\* Documents the specification names
NamedDocuments ==
    { <<"{", Quote, "a", Quote, ":", "1", ",", Quote, "b", Quote, ":", "[",
        "t", "r", "u", "e", ",", "n", "u", "l", "l", "]", "}">>,
      <<"[", "[", "[", "1", ",", "{", Quote, "a", Quote, ":", "[", "]", "}", "]", "]", "]">> }

Inputs == ChunkSeqs(MaxChunks) \cup WellFormedDocuments \cup NamedDocuments

----------------------------------------------------------------------------
(* main *)

Init ==
    /\ jsonFile \in Inputs
    /\ pc = "getTokens"
    /\ i = 0
    /\ tokenArray = <<>>
    /\ panicIndex = -1
    /\ k = 0
    /\ indentationLevel = 0
    /\ isToIndent = FALSE
    /\ stdout = <<>>

\* lines 67-253, an iteration that reaches line 252
GetTokensStep ==
    /\ pc = "getTokens"
    /\ i < Len(jsonFile)
    /\ LET it == iteration(jsonFile, i, tokenArray)
       IN  /\ ~it.panic
           /\ tokenArray' = IF it.isToken
                            THEN Append(tokenArray, Token(it.content, it.kind))
                            ELSE tokenArray
           /\ i' = i + it.length
    /\ UNCHANGED <<jsonFile, pc, panicIndex, k, indentationLevel, isToIndent, stdout>>

\* lines 170, 176, 198, 234: an iteration that reads past the end of jsonFile
GetTokensPanic ==
    /\ pc = "getTokens"
    /\ i < Len(jsonFile)
    /\ LET it == iteration(jsonFile, i, tokenArray)
       IN  /\ it.panic
           /\ panicIndex' = it.index
    /\ pc' = "panic"
    /\ UNCHANGED <<jsonFile, i, tokenArray, k, indentationLevel, isToIndent, stdout>>

\* lines 67, 255 and main lines 22-23: getTokens returns, the header is printed
GetTokensReturn ==
    /\ pc = "getTokens"
    /\ i >= Len(jsonFile)
    /\ pc' = "printTokens"
    /\ stdout' = stdout \o Header
    /\ UNCHANGED <<jsonFile, i, tokenArray, panicIndex, k, indentationLevel, isToIndent>>

\* lines 264-266: one token is styled and printed
PrintTokensStep ==
    /\ pc = "printTokens"
    /\ k < Len(tokenArray)
    /\ LET token == tokenArray[k + 1]
           ws == addWhiteSpace(token, indentationLevel, isToIndent)
       IN  /\ stdout' = stdout \o styleHTML(token, indentationLevel, isToIndent)
           /\ indentationLevel' = ws.level
           /\ isToIndent' = ws.toIndent
    /\ k' = k + 1
    /\ UNCHANGED <<jsonFile, pc, i, tokenArray, panicIndex>>

\* line 267 and main line 25: printTokens returns, the footer is printed
PrintTokensReturn ==
    /\ pc = "printTokens"
    /\ k >= Len(tokenArray)
    /\ pc' = "done"
    /\ stdout' = stdout \o Footer
    /\ UNCHANGED <<jsonFile, i, tokenArray, panicIndex, k, indentationLevel, isToIndent>>

Next ==
    \/ GetTokensStep
    \/ GetTokensPanic
    \/ GetTokensReturn
    \/ PrintTokensStep
    \/ PrintTokensReturn

Spec == Init /\ [][Next]_vars

----------------------------------------------------------------------------
(* Well-formed JSON (RFC 8259), the precondition of the claims about valid  *)
(* input.  Positions are 1-based; the result of a ...End operator is the    *)
(* position after the construct that starts at p, or 0 when there is none.  *)

WhiteSpace == {" ", "\t", "\n", "\r"}

HexDigits == Digits \cup {"a", "b", "c", "d", "e", "f", "A", "B", "C", "D", "E", "F"}

SimpleEscapes == {Quote, Backslash, "/", "b", "f", "n", "r", "t"}

RECURSIVE skipWhiteSpace(_, _)
skipWhiteSpace(s, p) ==
    IF p <= Len(s) /\ s[p] \in WhiteSpace THEN skipWhiteSpace(s, p + 1) ELSE p

RECURSIVE digitsEnd(_, _)
digitsEnd(s, p) ==
    IF p <= Len(s) /\ s[p] \in Digits THEN digitsEnd(s, p + 1) ELSE p

jsonNumberEnd(s, p) ==
    LET p1 == IF p <= Len(s) /\ s[p] = "-" THEN p + 1 ELSE p
        intEnd == IF p1 > Len(s) THEN 0
                  ELSE IF s[p1] = "0" THEN p1 + 1
                  ELSE IF s[p1] \in Digits THEN digitsEnd(s, p1)
                  ELSE 0
        fracEnd == IF intEnd = 0 THEN 0
                   ELSE IF intEnd <= Len(s) /\ s[intEnd] = "."
                   THEN (IF digitsEnd(s, intEnd + 1) > intEnd + 1
                         THEN digitsEnd(s, intEnd + 1) ELSE 0)
                   ELSE intEnd
        expStart == IF fracEnd # 0 /\ fracEnd + 1 <= Len(s) /\ s[fracEnd + 1] \in {"+", "-"}
                    THEN fracEnd + 2 ELSE fracEnd + 1
    IN  IF fracEnd = 0 THEN 0
        ELSE IF fracEnd <= Len(s) /\ s[fracEnd] \in {"e", "E"}
        THEN (IF digitsEnd(s, expStart) > expStart THEN digitsEnd(s, expStart) ELSE 0)
        ELSE fracEnd

RECURSIVE jsonStringBodyEnd(_, _)
jsonStringBodyEnd(s, p) ==
    IF p > Len(s) THEN 0
    ELSE CASE s[p] = Quote -> p + 1
           [] s[p] = Backslash ->
                IF p + 1 > Len(s) THEN 0
                ELSE IF s[p + 1] \in SimpleEscapes THEN jsonStringBodyEnd(s, p + 2)
                ELSE IF /\ s[p + 1] = "u"
                        /\ p + 5 <= Len(s)
                        /\ \A x \in (p + 2)..(p + 5) : s[x] \in HexDigits
                THEN jsonStringBodyEnd(s, p + 6)
                ELSE 0
           [] s[p] \in {"\t", "\n", "\r"} -> 0
           [] OTHER -> jsonStringBodyEnd(s, p + 1)

jsonStringEnd(s, p) ==
    IF p <= Len(s) /\ s[p] = Quote THEN jsonStringBodyEnd(s, p + 1) ELSE 0

jsonLiteralEnd(s, p) ==
    IF \E lit \in LiteralTexts :
          p + Len(lit) - 1 <= Len(s) /\ SubSeq(s, p, p + Len(lit) - 1) = lit
    THEN p + Len(CHOOSE lit \in LiteralTexts :
                    p + Len(lit) - 1 <= Len(s) /\ SubSeq(s, p, p + Len(lit) - 1) = lit)
    ELSE 0

RECURSIVE jsonValueEnd(_, _)
RECURSIVE jsonElementsEnd(_, _)
RECURSIVE jsonMembersEnd(_, _)

jsonValueEnd(s, p) ==
    IF p > Len(s) THEN 0
    ELSE CASE s[p] = "[" ->
                LET q == skipWhiteSpace(s, p + 1)
                IN  IF q <= Len(s) /\ s[q] = "]" THEN q + 1 ELSE jsonElementsEnd(s, q)
           [] s[p] = "{" ->
                LET q == skipWhiteSpace(s, p + 1)
                IN  IF q <= Len(s) /\ s[q] = "}" THEN q + 1 ELSE jsonMembersEnd(s, q)
           [] s[p] = Quote -> jsonStringEnd(s, p)
           [] s[p] \in Digits \cup {"-"} -> jsonNumberEnd(s, p)
           [] OTHER -> jsonLiteralEnd(s, p)

jsonElementsEnd(s, p) ==
    LET e == jsonValueEnd(s, p)
        q == skipWhiteSpace(s, e)
    IN  IF e = 0 \/ q > Len(s) THEN 0
        ELSE IF s[q] = "," THEN jsonElementsEnd(s, skipWhiteSpace(s, q + 1))
        ELSE IF s[q] = "]" THEN q + 1
        ELSE 0

jsonMembersEnd(s, p) ==
    LET keyEnd == jsonStringEnd(s, p)
        colon == skipWhiteSpace(s, keyEnd)
        e == jsonValueEnd(s, skipWhiteSpace(s, colon + 1))
        q == skipWhiteSpace(s, e)
    IN  IF keyEnd = 0 \/ colon > Len(s) THEN 0
        ELSE IF s[colon] # ":" THEN 0
        ELSE IF e = 0 \/ q > Len(s) THEN 0
        ELSE IF s[q] = "," THEN jsonMembersEnd(s, skipWhiteSpace(s, q + 1))
        ELSE IF s[q] = "}" THEN q + 1
        ELSE 0

IsValidJSON(s) ==
    LET e == jsonValueEnd(s, skipWhiteSpace(s, 1))
    IN  e # 0 /\ skipWhiteSpace(s, e) = Len(s) + 1

\* s without the white space outside its strings
RECURSIVE stripWhiteSpace(_, _, _)
stripWhiteSpace(s, p, inString) ==
    IF p > Len(s) THEN <<>>
    ELSE IF inString
    THEN IF s[p] = Backslash /\ p + 1 <= Len(s)
         THEN <<s[p], s[p + 1]>> \o stripWhiteSpace(s, p + 2, TRUE)
         ELSE <<s[p]>> \o stripWhiteSpace(s, p + 1, s[p] # Quote)
    ELSE IF s[p] \in WhiteSpace THEN stripWhiteSpace(s, p + 1, FALSE)
         ELSE <<s[p]>> \o stripWhiteSpace(s, p + 1, s[p] = Quote)

\* the content fields of the tokens, concatenated in order
RECURSIVE contentOf(_)
contentOf(tokens) ==
    IF tokens = <<>> THEN <<>> ELSE Head(tokens).content \o contentOf(Tail(tokens))

kindsOf(tokens) == [n \in 1..Len(tokens) |-> tokens[n].kind]

Returned == pc \in {"printTokens", "done"}

Stopped == pc \in {"printTokens", "done", "panic"}

----------------------------------------------------------------------------
(* Claims *)

Kinds ==
    { ObjectOpen, ObjectClose, ArrayOpen, ArrayClose, DelimiterPair, DelimiterMember,
      StringRegular, StringEscaped, StringClose, Number,
      LiteralBoolTrue, LiteralBoolFalse, LiteralNull }

DocAB == <<Quote, "a", "b", Quote>>
DocEmptyString == <<Quote, Quote>>
DocUnicode == <<Quote, Backslash, "u", "0", "0", "4", "1", Quote>>
DocNumber == <<"-", "1", "2", ".", "5", "e", "+", "3">>
DocBraces == <<"{", "}">>
DocRoundTrip ==
    <<"{", Quote, "a", Quote, ":", "1", ",", Quote, "b", Quote, ":", "[",
      "t", "r", "u", "e", ",", "n", "u", "l", "l", "]", "}">>

\* C1: for every valid JSON input, bare numbers, literals and strings at the
\* top level included, getTokens returns a token sequence whose contents,
\* concatenated in order, are the input without the white space outside
\* strings.
C1_ContentsReconstructInput ==
    (Stopped /\ IsValidJSON(jsonFile)) =>
        /\ pc # "panic"
        /\ contentOf(tokenArray) = stripWhiteSpace(jsonFile, 1, FALSE)

\* C2, as claimed: getTokens never reads outside the input, whatever the
\* input.
C2_NeverFails == pc # "panic" /\ panicIndex = -1

\* The iteration at the cursor extends a token by a lookahead that nothing
\* in the rest of the input ends: an escape with too few bytes left, a
\* string run with no quote or backslash after the cursor, or a number run
\* of number characters up to the last byte.
RunsOffTheEnd ==
    LET c == At(jsonFile, i)
        n == Len(jsonFile)
        inString == isStringAfter(tokenArray)
        closesEscape == /\ Len(tokenArray) > 0
                        /\ Last(tokenArray).kind = StringEscaped
                        /\ c = Quote
    IN  \/ /\ inString
           /\ c = Backslash
           /\ \/ n - i < 2
              \/ At(jsonFile, i + 1) = "u" /\ n - i < 6
        \/ /\ \/ ~inString /\ c = Quote
              \/ inString /\ c # Backslash /\ ~closesEscape
           /\ \A x \in (i + 1)..(n - 1) : At(jsonFile, x) \notin {Quote, Backslash}
        \/ /\ ~inString
           /\ c \in Digits \cup {"-"}
           /\ \A x \in (i + 1)..(n - 1) :
                  At(jsonFile, x) \in Digits \cup {"-", "+", "e", "E", "."}

\* C2, amended: getTokens fails exactly in the iterations whose lookahead
\* runs off the end of the input (string run, escape, number run), and then
\* by a read at index len(input); otherwise the iteration completes, the
\* cursor only moves forward, and getTokens returns with the cursor at or
\* past the end of the input.
C2_FailsOnlyOffTheEnd ==
    /\ [](pc = "panic" => panicIndex = Len(jsonFile) /\ i < Len(jsonFile) /\ RunsOffTheEnd)
    /\ [](Returned => panicIndex = -1 /\ i >= Len(jsonFile))
    /\ [][(pc = "getTokens" /\ pc' = "getTokens") => (~RunsOffTheEnd /\ i' > i)]_vars

C2_Witness ==
    /\ pc = "panic"
    /\ jsonFile = DocNumber
    /\ tokenArray = <<>>
    /\ panicIndex = 8

\* token n of tokens is the first token of a string literal
opensString(tokens, n) ==
    /\ tokens[n].kind = StringRegular
    /\ tokens[n].content[1] = Quote
    /\ ~isStringAfter(SubSeq(tokens, 1, n - 1))

\* C3, as claimed: the opening quote of every string literal is a token of
\* its own, so "ab" gives the two tokens " and ab", and "" gives two tokens ".
C3_OpeningQuoteIsOwnToken ==
    Returned =>
        /\ \A n \in 1..Len(tokenArray) :
              opensString(tokenArray, n) => tokenArray[n].content = <<Quote>>
        /\ jsonFile = DocAB =>
              tokenArray = << Token(<<Quote>>, StringRegular),
                              Token(<<"a", "b", Quote>>, StringRegular) >>
        /\ jsonFile = DocEmptyString =>
              tokenArray = << Token(<<Quote>>, StringRegular),
                              Token(<<Quote>>, StringRegular) >>

\* C3, amended: the opening quote is emitted in one StringRegular token with
\* the plain text that follows it, up to and including the closing quote or
\* up to the next backslash; it is a token of its own only when a backslash
\* follows it at once.  "ab" gives the one token "ab", "" the one token "".
C3_OpeningQuoteTakesTheRun ==
    Returned =>
        /\ \A n \in 1..Len(tokenArray) :
              opensString(tokenArray, n) =>
                 LET content == tokenArray[n].content
                 IN  /\ \A x \in 2..(Len(content) - 1) :
                            content[x] \notin {Quote, Backslash}
                     /\ IF Len(content) = 1
                        THEN /\ n < Len(tokenArray)
                             /\ tokenArray[n + 1].kind = StringEscaped
                        ELSE Last(content) = Quote
                             \/ /\ n < Len(tokenArray)
                                /\ tokenArray[n + 1].kind = StringEscaped
        /\ jsonFile = DocAB => tokenArray = << Token(DocAB, StringRegular) >>
        /\ jsonFile = DocEmptyString =>
              tokenArray = << Token(DocEmptyString, StringRegular) >>

C3_Witness ==
    /\ pc = "done"
    /\ jsonFile = DocAB
    /\ Len(tokenArray) = 1

\* C4, as claimed: the round-trip document gives 15 tokens, each key being
\* two StringRegular tokens.
C4_FifteenTokens ==
    (Returned /\ jsonFile = DocRoundTrip) =>
        kindsOf(tokenArray) =
            << ObjectOpen, StringRegular, StringRegular, DelimiterPair, Number,
               DelimiterMember, StringRegular, StringRegular, DelimiterPair, ArrayOpen,
               LiteralBoolTrue, DelimiterMember, LiteralNull, ArrayClose, ObjectClose >>

\* C4, amended: the round-trip document gives exactly 13 tokens, each key
\* being one StringRegular token: ObjectOpen, StringRegular, DelimiterPair,
\* Number, DelimiterMember, StringRegular, DelimiterPair, ArrayOpen,
\* LiteralBoolTrue, DelimiterMember, LiteralNull, ArrayClose, ObjectClose.
C4_ThirteenTokens ==
    (Stopped /\ jsonFile = DocRoundTrip) =>
        /\ pc # "panic"
        /\ kindsOf(tokenArray) =
            << ObjectOpen, StringRegular, DelimiterPair, Number, DelimiterMember,
               StringRegular, DelimiterPair, ArrayOpen, LiteralBoolTrue,
               DelimiterMember, LiteralNull, ArrayClose, ObjectClose >>

C4_Witness ==
    /\ pc = "done"
    /\ jsonFile = DocRoundTrip
    /\ k = 13

\* the maximal run of number characters of s that starts at index j
maximalNumberRun(s, j) ==
    LET stop == CHOOSE e \in (j + 1)..Len(s) :
                    /\ \A x \in (j + 1)..(e - 1) : validNextNumCharacter(At(s, x))
                    /\ e = Len(s) \/ ~validNextNumCharacter(At(s, e))
    IN  SubSeq(s, j + 1, stop)

\* C5: at a '-' or a digit outside a string getTokens emits one Number token
\* holding the maximal run of number characters, also when the run ends with
\* the input; the input -12.5e+3 gives the single token Number(-12.5e+3).
C5_NumberIsMaximalRun ==
    /\ [][(/\ pc = "getTokens"
           /\ i < Len(jsonFile)
           /\ ~isStringAfter(tokenArray)
           /\ At(jsonFile, i) \in Digits \cup {"-"})
          => tokenArray' =
                Append(tokenArray, Token(maximalNumberRun(jsonFile, i), Number))]_vars
    /\ []((Stopped /\ jsonFile = DocNumber) =>
              (pc # "panic" /\ tokenArray = << Token(DocNumber, Number) >>))

\* C6: every backslash met inside a string starts a StringEscaped token of 6
\* characters when a u follows the backslash and of 2 characters otherwise;
\* a quote right after a StringEscaped token is a StringClose token with
\* content ", and no other token is a StringClose; "\u0041" gives
\* StringRegular("), StringEscaped(\u0041), StringClose(").
C6_EscapesAndStringClose ==
    /\ \A n \in 1..Len(tokenArray) :
          LET token == tokenArray[n]
              afterEscape == n > 1 /\ tokenArray[n - 1].kind = StringEscaped
          IN  /\ token.kind = StringEscaped =>
                    /\ token.content[1] = Backslash
                    /\ Len(token.content) = IF token.content[2] = "u" THEN 6 ELSE 2
              /\ token.kind # StringEscaped =>
                    \A x \in 1..Len(token.content) : token.content[x] # Backslash
              /\ token.kind = StringClose => afterEscape /\ token.content = <<Quote>>
              /\ (afterEscape /\ token.content[1] = Quote) => token.kind = StringClose
    /\ (Returned /\ jsonFile = DocUnicode) =>
          tokenArray = << Token(<<Quote>>, StringRegular),
                          Token(<<Backslash, "u", "0", "0", "4", "1">>, StringEscaped),
                          Token(<<Quote>>, StringClose) >>

C6_Witness ==
    /\ pc = "done"
    /\ jsonFile = DocUnicode
    /\ Len(tokenArray) = 3
    /\ tokenArray[3].kind = StringClose

BraceSpan == "<span style=\"color:#D75F5F\">"

\* C7, as claimed: {} is printed as the coloured open brace, one newline and
\* the coloured close brace.
C7_OneNewline ==
    (pc = "done" /\ jsonFile = DocBraces) =>
        stdout = Header
                 \o << BraceSpan, "{", "</span>", "\n", BraceSpan, "}", "</span>" >>
                 \o Footer

\* C7, amended: {} is printed as the coloured open brace, then exactly two
\* newlines (the one after the open brace and the one before the close
\* brace), then the coloured close brace, with no tab and no other white
\* space between them.
C7_TwoNewlines ==
    (pc = "done" /\ jsonFile = DocBraces) =>
        /\ kindsOf(tokenArray) = <<ObjectOpen, ObjectClose>>
        /\ stdout = Header
                    \o << BraceSpan, "{", "</span>", "\n", "\n", BraceSpan, "}", "</span>" >>
                    \o Footer

C7_Witness ==
    /\ pc = "done"
    /\ jsonFile = DocBraces
    /\ k = 2
    /\ indentationLevel = 0

\* the number of tokens among the first n whose kind is in kinds
RECURSIVE countKinds(_, _, _)
countKinds(tokens, n, kinds) ==
    IF n = 0 THEN 0
    ELSE countKinds(tokens, n - 1, kinds) + (IF tokens[n].kind \in kinds THEN 1 ELSE 0)

\* C8: for well-formed input, after each printed token indentationLevel is
\* the number of ObjectOpen/ArrayOpen tokens printed minus the number of
\* ObjectClose/ArrayClose tokens printed, it is never negative, and it is 0
\* after the last token.
C8_IndentLevelIsDepth ==
    (Returned /\ IsValidJSON(jsonFile)) =>
        /\ indentationLevel = countKinds(tokenArray, k, {ObjectOpen, ArrayOpen})
                              - countKinds(tokenArray, k, {ObjectClose, ArrayClose})
        /\ indentationLevel >= 0
        /\ k = Len(tokenArray) => indentationLevel = 0

C8_Witness ==
    /\ pc = "printTokens"
    /\ IsValidJSON(jsonFile)
    /\ indentationLevel = 4
    /\ k > 4
    /\ tokenArray[k].kind = ArrayClose

\* the white space at the head of what the last step printed
leadingWhiteSpace(before, after) ==
    LET printed == SubSeq(after, Len(before) + 1, Len(after))
        first == CHOOSE x \in 1..Len(printed) :
                     /\ printed[x] \notin {"\n", "\t", " "}
                     /\ \A y \in 1..(x - 1) : printed[y] \in {"\n", "\t", " "}
    IN  SubSeq(printed, 1, first - 1)

PrintsPendingToken == pc = "printTokens" /\ k' = k + 1 /\ isToIndent

\* C9, as claimed: a token printed while isToIndent is set is preceded by
\* exactly indentationLevel tabs, followed by the white space of its kind.
C9_PrefixKept ==
    [][PrintsPendingToken =>
        LET kind == tokenArray[k + 1].kind
        IN  leadingWhiteSpace(stdout, stdout') =
                Tabs(indentationLevel)
                \o (CASE kind \in {ObjectClose, ArrayClose} ->
                            <<"\n">> \o Tabs(indentationLevel - 1)
                      [] kind = DelimiterPair -> <<" ">>
                      [] OTHER -> <<>>)]_vars

\* C9, amended: a token printed while isToIndent is set is preceded by one
\* tab when indentationLevel < 1 and by indentationLevel tabs otherwise,
\* unless it is a closing bracket or a colon: the white space of those kinds
\* (newline and indentationLevel - 1 tabs; one space) replaces the prefix.
C9_PrefixReplaced ==
    [][PrintsPendingToken =>
        LET kind == tokenArray[k + 1].kind
            tabs == IF indentationLevel < 1 THEN 1 ELSE indentationLevel
        IN  leadingWhiteSpace(stdout, stdout') =
                CASE kind \in {ObjectClose, ArrayClose} ->
                        <<"\n">> \o Tabs(indentationLevel - 1)
                  [] kind = DelimiterPair -> <<" ">>
                  [] OTHER -> Tabs(tabs)]_vars

C9_Witness ==
    /\ pc = "printTokens"
    /\ k > 1
    /\ tokenArray[k - 1].kind = DelimiterMember
    /\ tokenArray[k].kind = ArrayClose
    /\ indentationLevel = 0

\* C10: an iteration of getTokens that completes moves the cursor forward by
\* at least 1, and by the length of the content of the token it emits; the
\* token's kind is one of the 13 kinds and its content is not empty.
C10_CursorAdvance ==
    [][(pc = "getTokens" /\ pc' = "getTokens") =>
        /\ i' >= i + 1
        /\ tokenArray' # tokenArray =>
              /\ tokenArray' = Append(tokenArray, Last(tokenArray'))
              /\ i' = i + Len(Last(tokenArray').content)
              /\ Last(tokenArray').kind \in Kinds
              /\ Last(tokenArray').content # <<>>]_vars

C10_Witness ==
    /\ pc = "getTokens"
    /\ Len(tokenArray) = 2
    /\ tokenArray[2].kind = LiteralBoolFalse
    /\ i = 6

====
